---- MODULE Spec2Model ----
(***************************************************************************)
(* Model of saveablood (src/app.py): the blood-bank inventory ledger, the  *)
(* session-gated handlers that drive it and the record tables they write.  *)
(*                                                                         *)
(* The database tables are the variables banks, users, posts and requests. *)
(* Each worker is one browser session served by one thread of the          *)
(* threaded Flask server; its session cookie was set by an earlier login,  *)
(* or it has none.  A handler is split at its commit points: the SELECTs   *)
(* that load its objects, the UPDATE+commit inside update_inventory, and   *)
(* the INSERT+commit of its record.  Between two such steps the handlers   *)
(* of other workers may run.                                               *)
(***************************************************************************)
EXTENDS Integers, Sequences, FiniteSets, TLC

VARIABLES banks, users, posts, requests, session, th, resp, seeded

vars == <<banks, users, posts, requests, session, th, resp, seeded>>

(* ---------------------------- bounds ---------------------------------- *)
MaxSeed == 3
MaxCalls == 3

(* ------------------------- program constants -------------------------- *)
DefaultCount == 10

(* Python's None: in a string-valued slot, and in a slot that holds a row *)
None == "None"
NoneRow == [none |-> TRUE]
Workers == {"t1", "t2"}
BankIds == {1, 2}
FormBankIds == {1, 2, 3}

Labels == {"A+", "B+", "O+", "AB+", "A-", "B-", "O-", "AB-"}
Columns == {"A_pos", "B_pos", "O_pos", "AB_pos", "A_neg", "B_neg", "O_neg", "AB_neg"}
FormLabels == {"O-", "XX"}

(* type_map with the entry of 'O-' naming the column of 'O+' *)
type_map_typo == [l \in Labels |->
    CASE l = "A+" -> "A_pos" [] l = "B+" -> "B_pos" [] l = "O+" -> "O_pos"
      [] l = "AB+" -> "AB_pos" [] l = "A-" -> "A_neg" [] l = "B-" -> "B_neg"
      [] l = "O-" -> "O_pos" [] l = "AB-" -> "AB_neg"]

type_map == [l \in Labels |->
    CASE l = "A+" -> "A_pos" [] l = "B+" -> "B_pos" [] l = "O+" -> "O_pos"
      [] l = "AB+" -> "AB_pos" [] l = "A-" -> "A_neg" [] l = "B-" -> "B_neg"
      [] l = "O-" -> "O_neg" [] l = "AB-" -> "AB_neg"]

get_inventory(self) == [l \in Labels |->
    CASE l = "A+" -> self.A_pos [] l = "B+" -> self.B_pos [] l = "O+" -> self.O_pos
      [] l = "AB+" -> self.AB_pos [] l = "A-" -> self.A_neg [] l = "B-" -> self.B_neg
      [] l = "O-" -> self.O_neg [] l = "AB-" -> self.AB_neg]

(* Variants of update_inventory, each with one slip of the kind the code   *)
(* could contain; the properties below are checked to tell them apart.     *)

(* the request branch without the floor: "elif operation == 'request':"    *)
update_inventory_no_floor(self, blood_type, operation) ==
    LET col_name == IF blood_type \in DOMAIN type_map THEN type_map[blood_type] ELSE None
    IN  IF col_name = None
        THEN [ret |-> FALSE, self |-> self, col |-> None, commit |-> FALSE]
        ELSE LET current_value == self[col_name]
             IN  IF operation = "donate"
                 THEN [ret |-> TRUE, self |-> [self EXCEPT ![col_name] = current_value + 1],
                       col |-> col_name, commit |-> TRUE]
                 ELSE [ret |-> TRUE, self |-> [self EXCEPT ![col_name] = current_value - 1],
                       col |-> col_name, commit |-> TRUE]

(* the final "return False" replaced by "return True" *)
update_inventory_true_on_empty(self, blood_type, operation) ==
    LET col_name == IF blood_type \in DOMAIN type_map THEN type_map[blood_type] ELSE None
    IN  IF col_name = None
        THEN [ret |-> FALSE, self |-> self, col |-> None, commit |-> FALSE]
        ELSE LET current_value == self[col_name]
             IN  IF operation = "donate"
                 THEN [ret |-> TRUE, self |-> [self EXCEPT ![col_name] = current_value + 1],
                       col |-> col_name, commit |-> TRUE]
                 ELSE IF operation = "request" /\ current_value > 0
                 THEN [ret |-> TRUE, self |-> [self EXCEPT ![col_name] = current_value - 1],
                       col |-> col_name, commit |-> TRUE]
                 ELSE [ret |-> TRUE, self |-> self, col |-> col_name, commit |-> FALSE]

(* the floor test written "current_value > 1" *)
update_inventory_off_by_one(self, blood_type, operation) ==
    LET col_name == IF blood_type \in DOMAIN type_map THEN type_map[blood_type] ELSE None
    IN  IF col_name = None
        THEN [ret |-> FALSE, self |-> self, col |-> None, commit |-> FALSE]
        ELSE LET current_value == self[col_name]
             IN  IF operation = "donate"
                 THEN [ret |-> TRUE, self |-> [self EXCEPT ![col_name] = current_value + 1],
                       col |-> col_name, commit |-> TRUE]
                 ELSE IF operation = "request" /\ current_value > 1
                 THEN [ret |-> TRUE, self |-> [self EXCEPT ![col_name] = current_value - 1],
                       col |-> col_name, commit |-> TRUE]
                 ELSE [ret |-> FALSE, self |-> self, col |-> col_name, commit |-> FALSE]

(* the lookup written "type_map.get(blood_type, 'O_pos')" *)
update_inventory_default_col(self, blood_type, operation) ==
    LET col_name == IF blood_type \in DOMAIN type_map THEN type_map[blood_type] ELSE "O_pos"
    IN  LET current_value == self[col_name]
        IN  IF operation = "donate"
            THEN [ret |-> TRUE, self |-> [self EXCEPT ![col_name] = current_value + 1],
                  col |-> col_name, commit |-> TRUE]
            ELSE IF operation = "request" /\ current_value > 0
            THEN [ret |-> TRUE, self |-> [self EXCEPT ![col_name] = current_value - 1],
                  col |-> col_name, commit |-> TRUE]
            ELSE [ret |-> FALSE, self |-> self, col |-> col_name, commit |-> FALSE]

(* the request branch without its setattr: True is returned, nothing stored *)
update_inventory_no_decrement(self, blood_type, operation) ==
    LET col_name == IF blood_type \in DOMAIN type_map THEN type_map[blood_type] ELSE None
    IN  IF col_name = None
        THEN [ret |-> FALSE, self |-> self, col |-> None, commit |-> FALSE]
        ELSE LET current_value == self[col_name]
             IN  IF operation = "donate"
                 THEN [ret |-> TRUE, self |-> [self EXCEPT ![col_name] = current_value + 1],
                       col |-> col_name, commit |-> TRUE]
                 ELSE IF operation = "request" /\ current_value > 0
                 THEN [ret |-> TRUE, self |-> self, col |-> col_name, commit |-> FALSE]
                 ELSE [ret |-> FALSE, self |-> self, col |-> col_name, commit |-> FALSE]

(* update_inventory on a loaded BloodBank object: the value returned, the  *)
(* object afterwards, and whether the UPDATE was committed.                *)
update_inventory(self, blood_type, operation) ==
    LET col_name == IF blood_type \in DOMAIN type_map THEN type_map[blood_type] ELSE None
    IN  IF col_name = None
        THEN [ret |-> FALSE, self |-> self, col |-> None, commit |-> FALSE]
        ELSE LET current_value == self[col_name]
             IN  IF operation = "donate"
                 THEN [ret |-> TRUE, self |-> [self EXCEPT ![col_name] = current_value + 1],
                       col |-> col_name, commit |-> TRUE]
                 ELSE IF operation = "request" /\ current_value > 0
                 THEN [ret |-> TRUE, self |-> [self EXCEPT ![col_name] = current_value - 1],
                       col |-> col_name, commit |-> TRUE]
                 ELSE [ret |-> FALSE, self |-> self, col |-> col_name, commit |-> FALSE]

generate_password_hash(password) == <<"hash", password>>

(* BloodBank(name=..., location=..., **kw): the columns not given take the  *)
(* column default                                                          *)
BloodBank(name, location, kw) ==
    [name |-> name, location |-> location] @@
    [c \in Columns |-> IF c \in DOMAIN kw THEN kw[c] ELSE DefaultCount]

User(id, username, password, blood_type, location, role) ==
    [id |-> id, username |-> username, password_hash |-> generate_password_hash(password),
     blood_type |-> blood_type, location |-> location, role |-> role]

SeedUsers == << User(1, "dana", "pw", "O-", "New York", "donor"),
                User(2, "rita", "pw", "AB+", "New York", "recipient"),
                User(3, "xavi", "pw", "XX", "Dallas", "donor") >>

Usernames == {users[i].username : i \in 1..Len(users)}

(* User.query.filter_by(username=...).first() *)
UserByName(username) ==
    IF \E i \in 1..Len(users) : users[i].username = username
    THEN users[CHOOSE i \in 1..Len(users) :
                 /\ users[i].username = username
                 /\ \A j \in 1..Len(users) : users[j].username = username => i <= j]
    ELSE NoneRow

(* BloodBank.query.get(blood_bank_id) *)
BankGet(blood_bank_id) == IF blood_bank_id \in DOMAIN banks THEN banks[blood_bank_id] ELSE NoneRow

Idle == [pc |-> "idle", user |-> 0, bank_id |-> 0, label |-> None,
         bank |-> NoneRow, ret |-> FALSE]

(* a handler of worker w returns the response r *)
Return(w, r) == resp' = r

(* calls of post_donation and request_blood that passed the session and role gate *)
Calls == Len(posts) + Len(requests) + Cardinality({w \in Workers : th[w].pc # "idle"})

Init ==
    /\ \E O_neg \in 0..MaxSeed :
          banks = (1 :> BloodBank("Central City Blood Center", "New York",
                                  [O_neg |-> O_neg, A_pos |-> 50]))
               @@ (2 :> BloodBank("Metropolitan General Hospital Bank", "New York",
                                  [B_pos |-> 20, A_neg |-> 20]))
    /\ seeded = banks
    /\ users = SeedUsers
    /\ posts = << >>
    /\ requests = << >>
    /\ session \in [Workers -> {None} \cup Usernames]
    /\ th = [w \in Workers |-> Idle]
    /\ resp = None

(* --------------------------- post_donation ---------------------------- *)
(* post_donation without the role test of lines 195-196 *)
PostDonationBegin_no_role_check(w, blood_bank_id) ==
    /\ th[w].pc = "idle"
    /\ IF session[w] = None
       THEN th' = [th EXCEPT ![w] = Idle] /\ Return(w, "redirect:index")
       ELSE LET user == UserByName(session[w])
                bank == BankGet(blood_bank_id)
            IN  IF bank = NoneRow
                THEN th' = [th EXCEPT ![w] = Idle] /\ Return(w, "redirect:dashboard")
                ELSE /\ Calls < MaxCalls
                     /\ th' = [th EXCEPT ![w] = [pc |-> "pd_207", user |-> user.id,
                                                  bank_id |-> blood_bank_id, label |-> user.blood_type,
                                                  bank |-> bank, ret |-> FALSE]]
                     /\ resp' = resp
    /\ UNCHANGED <<banks, users, posts, requests, session, seeded>>

PostDonationBegin(w, blood_bank_id) ==
    /\ th[w].pc = "idle"
    /\ IF session[w] = None
       THEN th' = [th EXCEPT ![w] = Idle] /\ Return(w, "redirect:index")
       ELSE LET user == UserByName(session[w])
                bank == BankGet(blood_bank_id)
            IN  IF user.role # "donor"
                THEN th' = [th EXCEPT ![w] = Idle] /\ Return(w, "redirect:dashboard")
                ELSE IF bank = NoneRow
                THEN th' = [th EXCEPT ![w] = Idle] /\ Return(w, "redirect:dashboard")
                ELSE /\ Calls < MaxCalls
                     /\ th' = [th EXCEPT ![w] = [pc |-> "pd_207", user |-> user.id,
                                                  bank_id |-> blood_bank_id, label |-> user.blood_type,
                                                  bank |-> bank, ret |-> FALSE]]
                     /\ resp' = resp
    /\ UNCHANGED <<banks, users, posts, requests, session, seeded>>

(* post_donation whose UPDATE has no WHERE clause: every bank row is written *)
PostDonationUpdate_all_banks(w) ==
    /\ th[w].pc = "pd_207"
    /\ LET r == update_inventory(th[w].bank, th[w].label, "donate")
       IN  /\ banks' = IF r.commit
                       THEN [c \in DOMAIN banks |-> [banks[c] EXCEPT ![r.col] = r.self[r.col]]]
                       ELSE banks
           /\ th' = [th EXCEPT ![w].pc = "pd_210", ![w].bank = r.self, ![w].ret = r.ret]
    /\ UNCHANGED <<users, posts, requests, session, resp, seeded>>

PostDonationUpdate(w) ==
    /\ th[w].pc = "pd_207"
    /\ LET r == update_inventory(th[w].bank, th[w].label, "donate")
       IN  /\ banks' = IF r.commit
                       THEN [banks EXCEPT ![th[w].bank_id][r.col] = r.self[r.col]]
                       ELSE banks
           /\ th' = [th EXCEPT ![w].pc = "pd_210", ![w].bank = r.self, ![w].ret = r.ret]
    /\ UNCHANGED <<users, posts, requests, session, resp, seeded>>

(* post_donation that also marks the oldest unfulfilled request for the     *)
(* donated type at that bank as fulfilled                                   *)
PostDonationRecord_backfill(w) ==
    /\ th[w].pc = "pd_210"
    /\ LET user == users[th[w].user]
           bank == banks[th[w].bank_id]
           new_post == [content |-> <<"Donated", user.blood_type, "unit to", bank.name>>,
                        user_id |-> user.id, blood_bank_id |-> th[w].bank_id]
           open == {i \in 1..Len(requests) :
                       /\ ~requests[i].is_fulfilled
                       /\ requests[i].blood_bank_id = th[w].bank_id
                       /\ requests[i].blood_type_needed = user.blood_type}
       IN  /\ posts' = Append(posts, new_post)
           /\ requests' = IF open = {} THEN requests
                          ELSE [requests EXCEPT ![CHOOSE i \in open : \A j \in open : i <= j]
                                                      .is_fulfilled = TRUE]
    /\ th' = [th EXCEPT ![w] = Idle] /\ Return(w, "redirect:dashboard")
    /\ UNCHANGED <<banks, users, session, seeded>>

(* post_donation recording the post only when update_inventory returned True *)
PostDonationRecord_if_updated(w) ==
    /\ th[w].pc = "pd_210"
    /\ LET user == users[th[w].user]
           bank == banks[th[w].bank_id]
           new_post == [content |-> <<"Donated", user.blood_type, "unit to", bank.name>>,
                        user_id |-> user.id, blood_bank_id |-> th[w].bank_id]
       IN  posts' = IF th[w].ret THEN Append(posts, new_post) ELSE posts
    /\ th' = [th EXCEPT ![w] = Idle] /\ Return(w, "redirect:dashboard")
    /\ UNCHANGED <<banks, users, requests, session, seeded>>

PostDonationRecord(w) ==
    /\ th[w].pc = "pd_210"
    /\ LET user == users[th[w].user]
           bank == banks[th[w].bank_id]
           new_post == [content |-> <<"Donated", user.blood_type, "unit to", bank.name>>,
                        user_id |-> user.id, blood_bank_id |-> th[w].bank_id]
       IN  posts' = Append(posts, new_post)
    /\ th' = [th EXCEPT ![w] = Idle] /\ Return(w, "redirect:dashboard")
    /\ UNCHANGED <<banks, users, requests, session, seeded>>

(* --------------------------- request_blood ---------------------------- *)
RequestBloodBegin(w, blood_type_needed, blood_bank_id) ==
    /\ th[w].pc = "idle"
    /\ IF session[w] = None
       THEN th' = [th EXCEPT ![w] = Idle] /\ Return(w, "redirect:index")
       ELSE LET user == UserByName(session[w])
            IN  IF user.role # "recipient"
                THEN th' = [th EXCEPT ![w] = Idle] /\ Return(w, "redirect:dashboard")
                ELSE /\ Calls < MaxCalls
                     /\ th' = [th EXCEPT ![w] = [pc |-> "rb_271", user |-> user.id,
                                                  bank_id |-> blood_bank_id, label |-> blood_type_needed,
                                                  bank |-> BankGet(blood_bank_id), ret |-> FALSE]]
                     /\ resp' = resp
    /\ UNCHANGED <<banks, users, posts, requests, session, seeded>>

(* request_blood with line 271 written "is_fulfilled = True" *)
RequestBloodUpdate_default_true(w) ==
    /\ th[w].pc = "rb_271"
    /\ IF th[w].bank # NoneRow
       THEN LET r == update_inventory(th[w].bank, th[w].label, "request")
            IN  /\ banks' = IF r.commit
                            THEN [banks EXCEPT ![th[w].bank_id][r.col] = r.self[r.col]]
                            ELSE banks
                /\ th' = [th EXCEPT ![w].pc = "rb_276", ![w].bank = r.self, ![w].ret = r.ret]
       ELSE /\ banks' = banks
            /\ th' = [th EXCEPT ![w].pc = "rb_276", ![w].ret = TRUE]
    /\ UNCHANGED <<users, posts, requests, session, resp, seeded>>

RequestBloodUpdate(w) ==
    /\ th[w].pc = "rb_271"
    /\ IF th[w].bank # NoneRow
       THEN LET r == update_inventory(th[w].bank, th[w].label, "request")
            IN  /\ banks' = IF r.commit
                            THEN [banks EXCEPT ![th[w].bank_id][r.col] = r.self[r.col]]
                            ELSE banks
                /\ th' = [th EXCEPT ![w].pc = "rb_276", ![w].bank = r.self, ![w].ret = r.ret]
       ELSE /\ banks' = banks
            /\ th' = [th EXCEPT ![w].pc = "rb_276", ![w].ret = FALSE]
    /\ UNCHANGED <<users, posts, requests, session, resp, seeded>>

(* request_blood building the BloodRequest without is_fulfilled, so that   *)
(* the column default (False) is stored                                    *)
RequestBloodRecord_column_default(w) ==
    /\ th[w].pc = "rb_276"
    /\ LET new_request == [blood_type_needed |-> th[w].label,
                           location_needed |-> IF th[w].bank # NoneRow
                                               THEN banks[th[w].bank_id].location
                                               ELSE "Unknown",
                           user_id |-> th[w].user,
                           blood_bank_id |-> th[w].bank_id,
                           is_fulfilled |-> FALSE]
       IN  requests' = Append(requests, new_request)
    /\ th' = [th EXCEPT ![w] = Idle] /\ Return(w, "redirect:dashboard")
    /\ UNCHANGED <<banks, users, posts, session, seeded>>

RequestBloodRecord(w) ==
    /\ th[w].pc = "rb_276"
    /\ LET new_request == [blood_type_needed |-> th[w].label,
                           location_needed |-> IF th[w].bank # NoneRow
                                               THEN banks[th[w].bank_id].location
                                               ELSE "Unknown",
                           user_id |-> th[w].user,
                           blood_bank_id |-> th[w].bank_id,
                           is_fulfilled |-> th[w].ret]
       IN  requests' = Append(requests, new_request)
    /\ th' = [th EXCEPT ![w] = Idle] /\ Return(w, "redirect:dashboard")
    /\ UNCHANGED <<banks, users, posts, session, seeded>>

Next ==
    \/ \E w \in Workers, b \in FormBankIds : PostDonationBegin(w, b)
    \/ \E w \in Workers : PostDonationUpdate(w)
    \/ \E w \in Workers : PostDonationRecord(w)
    \/ \E w \in Workers, l \in FormLabels, b \in FormBankIds : RequestBloodBegin(w, l, b)
    \/ \E w \in Workers : RequestBloodUpdate(w)
    \/ \E w \in Workers : RequestBloodRecord(w)

Spec == Init /\ [][Next]_vars

(* ------------------- the web application as a whole -------------------- *)
(* SpecWeb starts from the freshly created database (seeded banks, no      *)
(* user) and adds the account handlers and the read-only pages to the      *)
(* ledger handlers above.  register is split at its commit: the SELECT of  *)
(* line 170, then the INSERT+commit of lines 173-176.                      *)

MaxUsers == 2
MaxWebCalls == 2

FormUsernames == {"ann", "bob"}
FormPasswords == {"pw", "bad"}
NewPasswords == {"pw"}
(* the role and blood_type fields of the registration forms submitted *)
FormRegistrations == {<<"donor", "O-">>, <<"donor", "XX">>, <<"recipient", "O-">>, <<"admin", "O-">>}
(* the bank ids submitted by the single client: an existing and a missing one *)
WebBankIds == {1, 3}

check_password(user, password) == user.password_hash = generate_password_hash(password)

Registering == Cardinality({w \in Workers : th[w].pc = "reg_173"})

InitWeb ==
    /\ \E O_neg \in {0, 3} :
          banks = (1 :> BloodBank("Central City Blood Center", "New York",
                                  [O_neg |-> O_neg, A_pos |-> 50]))
               @@ (2 :> BloodBank("Metropolitan General Hospital Bank", "New York",
                                  [B_pos |-> 20, A_neg |-> 20]))
    /\ seeded = banks
    /\ users = << >>
    /\ posts = << >>
    /\ requests = << >>
    /\ session = [w \in Workers |-> None]
    /\ th = [w \in Workers |-> Idle]
    /\ resp = None

RegisterBegin(w, username, password, blood_type, location, role) ==
    /\ th[w].pc = "idle"
    /\ IF UserByName(username) # NoneRow
       THEN th' = [th EXCEPT ![w] = Idle] /\ Return(w, "render:index:error")
       ELSE /\ Len(users) + Registering < MaxUsers
            /\ th' = [th EXCEPT ![w] = [pc |-> "reg_173",
                                        new_user |-> User(0, username, password, blood_type,
                                                          location, role)]]
            /\ resp' = resp
    /\ UNCHANGED <<banks, users, posts, requests, session, seeded>>

(* db.session.commit() at line 176: the INSERT fails on the UNIQUE          *)
(* constraint of User.username (line 72) and the handler ends in an         *)
(* unhandled IntegrityError, or the row is stored under the next id         *)
RegisterCommit(w) ==
    /\ th[w].pc = "reg_173"
    /\ IF th[w].new_user.username \in Usernames
       THEN /\ users' = users
            /\ session' = session
            /\ Return(w, "error:500")
       ELSE /\ users' = Append(users, [th[w].new_user EXCEPT !.id = Len(users) + 1])
            /\ session' = [session EXCEPT ![w] = th[w].new_user.username]
            /\ Return(w, "redirect:dashboard")
    /\ th' = [th EXCEPT ![w] = Idle]
    /\ UNCHANGED <<banks, posts, requests, seeded>>

Login(w, username, password) ==
    /\ th[w].pc = "idle"
    /\ LET user == UserByName(username)
       IN  IF user # NoneRow /\ check_password(user, password)
           THEN session' = [session EXCEPT ![w] = username] /\ Return(w, "redirect:dashboard")
           ELSE session' = session /\ Return(w, "render:index:error")
    /\ UNCHANGED <<banks, users, posts, requests, th, seeded>>

Logout(w) ==
    /\ th[w].pc = "idle"
    /\ session' = [session EXCEPT ![w] = None]
    /\ Return(w, "redirect:home")
    /\ UNCHANGED <<banks, users, posts, requests, th, seeded>>

Dashboard(w) ==
    /\ th[w].pc = "idle"
    /\ IF session[w] = None
       THEN Return(w, "redirect:index")
       ELSE LET user == UserByName(session[w])
            IN  IF user.role = "donor" THEN Return(w, "render:donor_dashboard")
                ELSE IF user.role = "recipient" THEN Return(w, "render:recipient_dashboard")
                ELSE Return(w, "error:400")
    /\ UNCHANGED <<banks, users, posts, requests, session, th, seeded>>

BloodBankInventory(w, bank_id) ==
    /\ th[w].pc = "idle"
    /\ IF session[w] = None
       THEN Return(w, "redirect:index")
       ELSE LET user == UserByName(session[w])
            IN  IF user.role # "recipient" THEN Return(w, "redirect:dashboard")
                ELSE IF BankGet(bank_id) = NoneRow THEN Return(w, "error:404")
                ELSE Return(w, "render:blood_bank_inventory")
    /\ UNCHANGED <<banks, users, posts, requests, session, th, seeded>>

(* one client uses every page of the application, one request at a time *)
WebClients == {"t1"}

NextWeb ==
    \/ \E w \in WebClients, u \in FormUsernames, p \in NewPasswords, f \in FormRegistrations :
          RegisterBegin(w, u, p, f[2], "New York", f[1])
    \/ \E w \in WebClients : RegisterCommit(w)
    \/ \E w \in WebClients, u \in FormUsernames, p \in FormPasswords : Login(w, u, p)
    \/ \E w \in WebClients : Logout(w)
    \/ \E w \in WebClients : Dashboard(w)
    \/ \E w \in WebClients, b \in WebBankIds : BloodBankInventory(w, b)
    \/ \E w \in WebClients, b \in WebBankIds :
          Len(posts) + Len(requests) < MaxWebCalls /\ PostDonationBegin(w, b)
    \/ \E w \in WebClients : PostDonationUpdate(w)
    \/ \E w \in WebClients : PostDonationRecord(w)
    \/ \E w \in WebClients, l \in FormLabels, b \in WebBankIds :
          Len(posts) + Len(requests) < MaxWebCalls /\ RequestBloodBegin(w, l, b)
    \/ \E w \in WebClients : RequestBloodUpdate(w)
    \/ \E w \in WebClients : RequestBloodRecord(w)

SpecWeb == InitWeb /\ [][NextWeb]_vars

(* two clients register, log in and log out concurrently *)
NextRegister ==
    \/ \E w \in Workers, u \in FormUsernames, p \in NewPasswords, f \in FormRegistrations :
          RegisterBegin(w, u, p, f[2], "New York", f[1])
    \/ \E w \in Workers : RegisterCommit(w)
    \/ \E w \in Workers, u \in FormUsernames, p \in FormPasswords : Login(w, u, p)
    \/ \E w \in Workers : Logout(w)

SpecRegister == InitWeb /\ [][NextRegister]_vars

(* ======================= properties of the ledger ====================== *)

(* the count of label l in a bank row, as get_inventory reports it *)
Count(row, l) == get_inventory(row)[l]

(* worker w executes line 207, resp. lines 271-273, in this step *)
DonateStep(w) == th[w].pc = "pd_207" /\ th'[w].pc = "pd_210"
RequestStep(w) == th[w].pc = "rb_271" /\ th'[w].pc = "rb_276"
(* worker w executes lines 276-284, resp. 210-216, in this step *)
RequestRecordStep(w) == th[w].pc = "rb_276" /\ th'[w].pc = "idle"
DonationRecordStep(w) == th[w].pc = "pd_210" /\ th'[w].pc = "idle"

AllIdle == \A w \in Workers : th[w].pc = "idle"
Fulfilled == {i \in 1..Len(requests) : requests[i].is_fulfilled}

(* C1: when N request_blood calls for the same bank b and label T have all  *)
(* completed, with no donation, against a seeded count k < N, exactly k of  *)
(* them are recorded fulfilled, N-k unfulfilled, and the count of T is 0.   *)
C1_NoDoubleSpend ==
    \A b \in BankIds, T \in Labels :
        LET N == Len(requests)
            k == Count(seeded[b], T)
        IN  ( /\ AllIdle
              /\ posts = << >>
              /\ \A i \in 1..N : requests[i].blood_bank_id = b /\ requests[i].blood_type_needed = T
              /\ k < N )
            => /\ Cardinality(Fulfilled) = k
               /\ Cardinality((1..N) \ Fulfilled) = N - k
               /\ Count(banks[b], T) = 0

(* C2: every bank has a count for each of the 8 labels, and every count is  *)
(* an integer >= 0.                                                         *)
C2_CountsNonNegative ==
    /\ Cardinality(Labels) = 8
    /\ \A b \in DOMAIN banks :
          /\ DOMAIN get_inventory(banks[b]) = Labels
          /\ \A l \in Labels : Count(banks[b], l) \in Nat

(* a bank was drained to 0 by requests and a further request was refused    *)
C2_Witness ==
    \E b \in BankIds, l \in Labels :
        /\ Count(seeded[b], l) > 0
        /\ Count(banks[b], l) = 0
        /\ \E i \in 1..Len(requests) :
              /\ requests[i].blood_bank_id = b
              /\ requests[i].blood_type_needed = l
              /\ ~requests[i].is_fulfilled

(* C3: update_inventory(T, 'donate') with a valid label T on a bank whose   *)
(* count of T is n returns True and stores n+1 for T, whatever n is; the    *)
(* other 7 counts of the bank, and the other banks, are unchanged.          *)
C3_DonateAddsOne ==
    [][\A w \in Workers :
        (DonateStep(w) /\ th[w].label \in Labels) =>
            LET b == th[w].bank_id
                T == th[w].label
                n == Count(th[w].bank, T)
            IN  /\ th'[w].ret = TRUE
                /\ Count(th'[w].bank, T) = n + 1
                /\ Count(banks'[b], T) = n + 1
                /\ \A l \in Labels \ {T} :
                      /\ Count(banks'[b], l) = Count(banks[b], l)
                      /\ Count(th'[w].bank, l) = Count(th[w].bank, l)
                /\ \A c \in BankIds \ {b} : banks'[c] = banks[c]]_vars

(* a donation of a valid label has been applied to an up-to-date bank object *)
C3_Witness ==
    \E w \in Workers :
        /\ th[w].pc = "pd_210"
        /\ th[w].label \in Labels
        /\ th[w].ret
        /\ Count(banks[th[w].bank_id], th[w].label) = Count(seeded[th[w].bank_id], th[w].label) + 1

(* C4: update_inventory(T, 'request') with a valid label T on a bank whose  *)
(* count of T is 0 returns False and changes no count; the handler goes on  *)
(* to record the request and answers with its usual redirect.               *)
C4_RequestOnEmpty ==
    [][\A w \in Workers :
        /\ ( /\ RequestStep(w)
             /\ th[w].bank # NoneRow
             /\ th[w].label \in Labels
             /\ Count(th[w].bank, th[w].label) = 0 )
           => /\ th'[w].ret = FALSE
              /\ banks' = banks
              /\ th'[w].bank = th[w].bank
        /\ ( /\ RequestRecordStep(w)
             /\ th[w].bank # NoneRow
             /\ th[w].label \in Labels
             /\ th[w].ret = FALSE )
           => /\ Len(requests') = Len(requests) + 1
              /\ resp' = "redirect:dashboard"]_vars

(* a request of a valid label found the count 0 *)
C4_Witness ==
    \E w \in Workers :
        /\ th[w].pc = "rb_276"
        /\ th[w].bank # NoneRow
        /\ th[w].label \in Labels
        /\ Count(th[w].bank, th[w].label) = 0
        /\ Count(banks[th[w].bank_id], th[w].label) = 0
        /\ ~th[w].ret

(* C5: update_inventory(T, 'request') with a valid label T on a bank whose  *)
(* count of T is n > 0 returns True and stores n-1 for T.                   *)
C5_RequestTakesOne ==
    [][\A w \in Workers :
        ( /\ RequestStep(w)
          /\ th[w].bank # NoneRow
          /\ th[w].label \in Labels
          /\ Count(th[w].bank, th[w].label) > 0 )
        => LET n == Count(th[w].bank, th[w].label)
           IN  /\ th'[w].ret = TRUE
               /\ Count(th'[w].bank, th[w].label) = n - 1
               /\ Count(banks'[th[w].bank_id], th[w].label) = n - 1]_vars

(* a request took the last unit of a label *)
C5_Witness ==
    \E w \in Workers :
        /\ th[w].pc = "rb_276"
        /\ th[w].bank # NoneRow
        /\ th[w].label \in Labels
        /\ th[w].ret
        /\ Count(seeded[th[w].bank_id], th[w].label) = 1
        /\ Count(banks[th[w].bank_id], th[w].label) = 0

(* C6: a request_blood call by a logged-in recipient always proceeds to its *)
(* record; it appends exactly one BloodRequest, whose is_fulfilled is the   *)
(* value its update_inventory call returned; and that value is True exactly *)
(* when the call stored the count it read, less 1, for the requested label  *)
(* of the targeted bank.                                                    *)
C6_RecordMirrorsLedger ==
    [][/\ \A w \in Workers :
            /\ RequestRecordStep(w) =>
                  /\ Len(requests') = Len(requests) + 1
                  /\ SubSeq(requests', 1, Len(requests)) = requests
                  /\ requests'[Len(requests')].is_fulfilled = th[w].ret
                  /\ requests'[Len(requests')].user_id = th[w].user
                  /\ requests'[Len(requests')].blood_bank_id = th[w].bank_id
                  /\ requests'[Len(requests')].blood_type_needed = th[w].label
            /\ th[w].pc = "rb_271" => th'[w].pc \in {"rb_271", "rb_276"}
            /\ th[w].pc = "rb_276" => th'[w].pc \in {"rb_276", "idle"}
            /\ RequestStep(w) =>
                  /\ th'[w].ret = TRUE <=>
                        /\ th[w].bank_id \in DOMAIN banks
                        /\ th[w].label \in Labels
                        /\ Count(th'[w].bank, th[w].label)
                              = Count(th[w].bank, th[w].label) - 1
                        /\ Count(banks'[th[w].bank_id], th[w].label)
                              = Count(th[w].bank, th[w].label) - 1
                  /\ th'[w].ret = FALSE => banks' = banks
            /\ \A l \in FormLabels, b \in FormBankIds :
                  ( /\ RequestBloodBegin(w, l, b)
                    /\ session[w] # None
                    /\ UserByName(session[w]).role = "recipient" )
                  => /\ th'[w].pc = "rb_271"
                     /\ th'[w].label = l
                     /\ th'[w].bank_id = b
                     /\ users[th'[w].user].username = session[w]
       /\ requests' # requests => \E w \in Workers : RequestRecordStep(w)]_vars

(* a fulfilled and an unfulfilled request have been recorded *)
C6_Witness ==
    \E i, j \in 1..Len(requests) :
        /\ requests[i].is_fulfilled
        /\ ~requests[j].is_fulfilled
        /\ requests[j].blood_bank_id \in BankIds
        /\ requests[j].blood_type_needed \in Labels

(* C7: request_blood by a recipient with a bank id that matches no bank     *)
(* changes no count of any bank and appends a BloodRequest with             *)
(* is_fulfilled = False and location_needed = "Unknown".                    *)
C7_UnknownBankRequest ==
    [][\A w \in Workers :
        /\ (th[w].pc \in {"rb_271", "rb_276"} /\ th[w].bank_id \notin DOMAIN banks
              /\ th'[w] # th[w])
           => banks' = banks
        /\ (RequestRecordStep(w) /\ th[w].bank_id \notin DOMAIN banks)
           => /\ Len(requests') = Len(requests) + 1
              /\ requests'[Len(requests')].is_fulfilled = FALSE
              /\ requests'[Len(requests')].location_needed = "Unknown"
              /\ requests'[Len(requests')].blood_bank_id = th[w].bank_id
        /\ \A l \in FormLabels, b \in FormBankIds \ DOMAIN banks :
              ( /\ RequestBloodBegin(w, l, b)
                /\ session[w] # None
                /\ UserByName(session[w]).role = "recipient" )
              => /\ banks' = banks
                 /\ th'[w].pc = "rb_271"
                 /\ th'[w].bank_id = b]_vars

(* a request against a missing bank has been recorded, with no count changed *)
C7_Witness ==
    /\ banks = seeded
    /\ \E i \in 1..Len(requests) :
          /\ requests[i].blood_bank_id \notin DOMAIN banks
          /\ requests[i].location_needed = "Unknown"
          /\ ~requests[i].is_fulfilled

(* C8: post_donation by a donor with a bank id that matches no bank writes  *)
(* no BloodPost and changes no count; with the id of an existing bank it    *)
(* always proceeds to append exactly one BloodPost, of the acting donor and *)
(* that bank.                                                               *)
C8_DonationRecord ==
    [][/\ \A w \in Workers :
            /\ \A b \in FormBankIds :
                  ( /\ PostDonationBegin(w, b)
                    /\ session[w] # None
                    /\ UserByName(session[w]).role = "donor" )
                  => IF b \in DOMAIN banks
                     THEN /\ th'[w].pc = "pd_207"
                          /\ th'[w].bank_id = b
                          /\ users[th'[w].user].username = session[w]
                     ELSE /\ th'[w].pc = "idle"
                          /\ posts' = posts
                          /\ banks' = banks
            /\ th[w].pc = "pd_207" => th'[w].pc \in {"pd_207", "pd_210"}
            /\ th[w].pc = "pd_210" => th'[w].pc \in {"pd_210", "idle"}
            /\ th[w].pc \in {"pd_207", "pd_210"} => th[w].bank_id \in DOMAIN banks
            /\ DonationRecordStep(w) =>
                  /\ Len(posts') = Len(posts) + 1
                  /\ SubSeq(posts', 1, Len(posts)) = posts
                  /\ posts'[Len(posts')].user_id = th[w].user
                  /\ posts'[Len(posts')].blood_bank_id = th[w].bank_id
       /\ posts' # posts => \E w \in Workers : DonationRecordStep(w)]_vars

(* donations have been recorded, one of them by the donor whose              *)
(* update_inventory call returned False                                      *)
C8_Witness ==
    \E i, j \in 1..Len(posts) :
        /\ users[posts[i].user_id].blood_type \in Labels
        /\ users[posts[j].user_id].blood_type \notin Labels
        /\ posts[i].blood_bank_id \in DOMAIN banks

(* C9: update_inventory with a label outside the 8 recognized labels, for   *)
(* 'donate' and for 'request', changes no count of any bank.                *)
C9_InvalidLabelNoMutation ==
    [][\A w \in Workers :
        ((DonateStep(w) \/ RequestStep(w)) /\ th[w].label \notin Labels)
        => /\ banks' = banks
           /\ th'[w].bank = th[w].bank]_vars

(* a donate and a request with an unrecognized label have both run *)
C9_Witness ==
    \E w, v \in Workers :
        /\ th[w].pc = "pd_210" /\ th[w].label \notin Labels
        /\ th[v].pc = "rb_276" /\ th[v].label \notin Labels /\ th[v].bank # NoneRow

(* C10: the outcome of update_inventory(label, 'request') for a label       *)
(* outside the 8 recognized labels differs from its outcome for a valid     *)
(* label whose count is 0.                                                  *)
C10_InvalidLabelDistinct ==
    \A w, v \in Workers :
        ( /\ th[w].pc = "rb_276" /\ th[w].bank # NoneRow /\ th[w].label \notin Labels
          /\ th[v].pc = "rb_276" /\ th[v].bank # NoneRow /\ th[v].label \in Labels
          /\ Count(th[v].bank, th[v].label) = 0 /\ ~th[v].ret )
        => th[w].ret # th[v].ret

(* the donations recorded for bank b by donors whose blood type is T, and   *)
(* the requests recorded for bank b and label T                             *)
DonationsOf(b, T) == {i \in 1..Len(posts) :
    posts[i].blood_bank_id = b /\ users[posts[i].user_id].blood_type = T}
RequestsOf(b, T) == {i \in 1..Len(requests) :
    requests[i].blood_bank_id = b /\ requests[i].blood_type_needed = T}

(* the bank rows that d donate calls and r request calls for label T leave, *)
(* run one after the other on row in any order                              *)
RECURSIVE SerialOutcomes(_, _, _, _)
SerialOutcomes(row, T, d, r) ==
    IF d = 0 /\ r = 0 THEN {row}
    ELSE (IF d > 0
          THEN SerialOutcomes(update_inventory(row, T, "donate").self, T, d - 1, r)
          ELSE {})
         \cup
         (IF r > 0
          THEN SerialOutcomes(update_inventory(row, T, "request").self, T, d, r - 1)
          ELSE {})

(* C11: when all calls have completed, the count of every label of every    *)
(* bank is the one some serial order of the recorded donate and request     *)
(* calls leaves; N donations of T alone raise the count of T by N.          *)
C11_Serializable ==
    AllIdle =>
        \A b \in BankIds, T \in Labels :
            Count(banks[b], T) \in
                {Count(x, T) : x \in SerialOutcomes(seeded[b], T,
                                       Cardinality(DonationsOf(b, T)),
                                       Cardinality(RequestsOf(b, T)))}

(* C13: a step of a post_donation or request_blood call that targets bank b *)
(* leaves the 8 counts of every other bank unchanged, whatever calls on the *)
(* other banks are in flight; a step of no call changes no bank.            *)
C13_OtherBanksUntouched ==
    [][/\ \A w \in Workers :
            th'[w] # th[w] =>
                LET b == IF th[w].pc = "idle" THEN th'[w].bank_id ELSE th[w].bank_id
                IN  \A c \in BankIds \ {b} :
                        \A l \in Labels : Count(banks'[c], l) = Count(banks[c], l)
       /\ th' = th => banks' = banks]_vars

(* both banks have been written, while a call on bank 1 and a call on bank  *)
(* 2 were in flight together                                                *)
C13_Witness ==
    /\ banks[1] # seeded[1]
    /\ banks[2] # seeded[2]
    /\ \E w, v \in Workers :
          /\ th[w].pc # "idle" /\ th[w].bank_id = 1
          /\ th[v].pc # "idle" /\ th[v].bank_id = 2

(* C17: when one client alone issues request_blood calls for bank b and     *)
(* label T, one after the other with no donation, against a seeded count k, *)
(* the i-th call is recorded fulfilled exactly when i <= k, and after N     *)
(* calls the count is k - N, or 0 once N >= k.                              *)
C17_FirstKFulfilled ==
    \A w \in Workers, b \in BankIds, T \in Labels :
        LET N == Len(requests)
            k == Count(seeded[b], T)
        IN  ( /\ \A v \in Workers \ {w} : session[v] = None
              /\ th[w].pc = "idle"
              /\ posts = << >>
              /\ RequestsOf(b, T) = 1..N )
            => /\ \A i \in 1..N : requests[i].is_fulfilled <=> i <= k
               /\ Count(banks[b], T) = IF N >= k THEN 0 ELSE k - N

(* one client has drained a seeded count k >= 1 and its next call was       *)
(* recorded unfulfilled                                                     *)
C17_Witness ==
    \E w \in Workers, b \in BankIds, T \in Labels :
        /\ \A v \in Workers \ {w} : session[v] = None
        /\ th[w].pc = "idle"
        /\ Count(seeded[b], T) >= 1
        /\ RequestsOf(b, T) = 1..Len(requests)
        /\ Len(requests) = Count(seeded[b], T) + 1
        /\ ~requests[Len(requests)].is_fulfilled
        /\ Count(banks[b], T) = 0

(* C19: when all calls have completed, for every bank b and label T the     *)
(* count is the seeded count, plus the donations recorded for b by donors   *)
(* of type T, minus the requests recorded fulfilled for b and T.            *)
C19_Conservation ==
    AllIdle =>
        \A b \in BankIds, T \in Labels :
            Count(banks[b], T) =
                Count(seeded[b], T) + Cardinality(DonationsOf(b, T))
                    - Cardinality(RequestsOf(b, T) \cap Fulfilled)

(* ================== properties of the web application ================== *)

UniqueUsernames ==
    \A i, j \in 1..Len(users) : users[i].username = users[j].username => i = j

(* C12: post_donation by a caller with no session or whose role is not      *)
(* donor, and request_blood or blood_bank_inventory by a caller with no     *)
(* session or whose role is not recipient, change no bank count and append  *)
(* no BloodPost or BloodRequest; with no session the answer is the redirect *)
(* to the login page.  Only a donor's call reaches the donation, only a     *)
(* recipient's call reaches the request.                                    *)
C12_Gating ==
    [][\A w \in Workers :
        LET refused(role) == session[w] = None \/ UserByName(session[w]).role # role
            nothing == /\ banks' = banks /\ posts' = posts /\ requests' = requests
                       /\ users' = users /\ session' = session
                       /\ th'[w].pc = "idle"
            login == session[w] = None => resp' = "redirect:index"
        IN  /\ \A b \in FormBankIds :
                  (PostDonationBegin(w, b) /\ refused("donor")) => nothing /\ login
            /\ \A b \in FormBankIds, l \in FormLabels :
                  (RequestBloodBegin(w, l, b) /\ refused("recipient")) => nothing /\ login
            /\ \A b \in FormBankIds :
                  BloodBankInventory(w, b) =>
                      /\ nothing
                      /\ login
                      /\ refused("recipient") => resp' \in {"redirect:index", "redirect:dashboard"}
            /\ (th[w].pc = "idle" /\ th'[w].pc = "pd_207") =>
                  session[w] # None /\ UserByName(session[w]).role = "donor"
            /\ (th[w].pc = "idle" /\ th'[w].pc = "rb_271") =>
                  session[w] # None /\ UserByName(session[w]).role = "recipient"]_vars

(* a caller without session has been sent to the login page after users    *)
(* registered, with no record written and no count changed                 *)
C12_Witness ==
    /\ session["t1"] = None
    /\ resp = "redirect:index"
    /\ \E i, j \in 1..Len(users) : users[i].role = "donor" /\ users[j].role = "recipient"
    /\ posts = << >> /\ requests = << >>
    /\ banks = seeded

(* C14: a register call whose username is taken creates no User, changes no *)
(* User, sets no session and is answered with the re-rendered form, also    *)
(* when the username was taken by a concurrent register call; usernames are *)
(* unique in every state.                                                   *)
C14_DuplicateUsername ==
    [][/\ \A w \in Workers :
            LET refused == /\ users' = users
                           /\ session' = session
                           /\ resp' = "render:index:error"
            IN  /\ \A u \in FormUsernames, p \in NewPasswords, f \in FormRegistrations :
                      (RegisterBegin(w, u, p, f[2], "New York", f[1]) /\ u \in Usernames)
                      => refused
                /\ ( /\ th[w].pc = "reg_173" /\ th'[w].pc = "idle"
                     /\ th[w].new_user.username \in Usernames )
                   => refused
       /\ UniqueUsernames']_vars

(* C15: every registered User has the role donor or the role recipient.     *)
C15_RoleDonorOrRecipient ==
    \A i \in 1..Len(users) : users[i].role \in {"donor", "recipient"}

(* C16: the label that post_donation and request_blood pass to              *)
(* update_inventory is one of the 8 recognized labels.                      *)
C16_LedgerLabelsValid ==
    \A w \in Workers :
        /\ th[w].pc = "pd_207" => th[w].label \in Labels
        /\ (th[w].pc = "rb_271" /\ th[w].bank # NoneRow) => th[w].label \in Labels

(* C18: every step of every handler leaves the BloodPost and BloodRequest   *)
(* rows written so far as they are; rows are only appended.                 *)
C18_AppendOnly ==
    [][/\ Len(posts') >= Len(posts)
       /\ SubSeq(posts', 1, Len(posts)) = posts
       /\ Len(requests') >= Len(requests)
       /\ SubSeq(requests', 1, Len(requests)) = requests]_vars

(* a request for O- at bank 1 was recorded unfulfilled against an empty     *)
(* stock, a later donation restocked O- there, and the record still says    *)
(* unfulfilled                                                              *)
C18_Witness ==
    /\ Count(seeded[1], "O-") = 0
    /\ Count(banks[1], "O-") = 1
    /\ \E i \in 1..Len(requests) :
          /\ requests[i].blood_bank_id = 1
          /\ requests[i].blood_type_needed = "O-"
          /\ ~requests[i].is_fulfilled
    /\ \E i \in 1..Len(posts) :
          posts[i].blood_bank_id = 1 /\ users[posts[i].user_id].blood_type = "O-"
    /\ \A i \in 1..Len(requests) : ~requests[i].is_fulfilled

(* C20: post_donation appends a BloodPost only when its update_inventory    *)
(* call returned True.                                                      *)
C20_PostOnlyAfterIncrement ==
    [][\A w \in Workers : DonationRecordStep(w) => th[w].ret = TRUE]_vars

====
